---- MODULE Spec2Model ----
(***************************************************************************)
(* Poisson-disk pruning and radius calibration of                          *)
(* semantic_urban_mesh_segmentation/sampling_function.hpp.                 *)
(*                                                                         *)
(* Geometry.  Points lie on the x axis (y = z = 0), so the Euclidean       *)
(* distance of two points is the absolute difference of their integer      *)
(* abscissae.  A radius is kept as an integer numerator over the fixed     *)
(* denominator RadDen: radius = n / RadDen.  RadDen holds the divisor 50   *)
(* of "mesh_bbox.diagonal() / 50.0" and FracBits binary digits, enough for *)
(* every halving and every midpoint the calibration takes within the       *)
(* bounds to be exact, as they are in the float arithmetic of the code.    *)
(*                                                                         *)
(* spatial_hashing.hpp (SpatialHashTable) is not among the source files:   *)
(* InitEmpty/Add (CellOf), Grid (CellOccupants), EmptyCell, CountInSphere,  *)
(* RemoveInSphere and UpdateAllocatedCells are modelled from the           *)
(* specification's section 4.1.                                            *)
(***************************************************************************)
EXTENDS Integers, Sequences, FiniteSets, TLC

\* ------------------------------------------------------------------------
\* Bounds of the model
\* ------------------------------------------------------------------------
\* longest dense Monte Carlo pool
MaxPool == 3
\* longest output cloud a pruning run may build (reached only when the
\* selection returns a pointer that is not an occupant, see SelectSample)
MaxCloud == 6
\* iterations explored of each bracketing loop of PoissonDiskPruningByNumber
MaxBracket == 3
\* largest maxIter argument
MaxIterCap == 2

\* ------------------------------------------------------------------------
\* Program constants
\* ------------------------------------------------------------------------
\* "smesh->mesh_bbox.diagonal() / 50.0"
DiagDivisor == 50
\* "while (occupancyRatio > 100)"
MaxOccupancy == 100
\* cellsize = 2.0f * diskRadius / sqrt(3.0): 2/sqrt(3) = 1.154700..., taken
\* as the rational CellNum / CellDen = 97/84 = 1.154761...
CellNum == 97
CellDen == 84

RECURSIVE Pow2(_)
Pow2(n) == IF n <= 0 THEN 1 ELSE 2 * Pow2(n - 1)

FracBits == MaxBracket + MaxIterCap + 1
RadDen == DiagDivisor * Pow2(FracBits)

\* ------------------------------------------------------------------------
\* Input domains
\* ------------------------------------------------------------------------
\* the two end vertices of the mesh come first, then up to one more vertex
EndVertices == <<0, 50>>
ExtraVertexPositions == {1, 21}
Meshes == {EndVertices} \cup {Append(EndVertices, x) : x \in ExtraVertexPositions}

PoolPositions == {20, 21, 22}

RECURSIVE SeqsUpTo(_, _)
SeqsUpTo(S, n) ==
    IF n = 0 THEN {<<>>}
    ELSE LET shorter == SeqsUpTo(S, n - 1)
         IN  shorter \cup {Append(s, x) : s \in {t \in shorter : Len(t) = n - 1}, x \in S}

Pools == SeqsUpTo(PoolPositions, MaxPool)

\* radii of the stand-alone pruning runs, in quarters of the unit length
RadiusQuarters == {2, 6, 7}
PruneRadii == {(q * RadDen) \div 4 : q \in RadiusQuarters}

\* bestSamplePoolSize is an int the caller chooses freely
BestPoolSizes == {0, 1, 2}

\* ------------------------------------------------------------------------
\* Arithmetic helpers
\* ------------------------------------------------------------------------
Abs(x) == IF x < 0 THEN -x ELSE x
Min2(a, b) == IF a < b THEN a ELSE b
Max2(a, b) == IF a > b THEN a ELSE b

RECURSIVE GCD(_, _)
GCD(a, b) == IF b = 0 THEN a ELSE GCD(b, a % b)

RECURSIVE SeqMin(_)
SeqMin(s) == IF Len(s) = 1 THEN s[1] ELSE Min2(s[1], SeqMin(Tail(s)))
RECURSIVE SeqMax(_)
SeqMax(s) == IF Len(s) = 1 THEN s[1] ELSE Max2(s[1], SeqMax(Tail(s)))

RECURSIVE SortedSeq(_)
SortedSeq(S) ==
    IF S = {} THEN <<>>
    ELSE LET m == CHOOSE x \in S : \A y \in S : x <= y
         IN  <<m>> \o SortedSeq(S \ {m})

RECURSIVE Filter(_, _)
Filter(s, keep) ==
    IF s = <<>> THEN <<>>
    ELSE (IF s[1] \in keep THEN <<s[1]>> ELSE <<>>) \o Filter(Tail(s), keep)

Range(s) == {s[j] : j \in 1..Len(s)}

Perms(n) == {f \in [1..n -> 1..n] : \A a, b \in 1..n : f[a] = f[b] => a = b}

\* ------------------------------------------------------------------------
\* State
\* ------------------------------------------------------------------------
VARIABLES
    \* arguments: the mesh's vertex positions in enumeration order (smesh),
    \* the dense pool (sampling_pointcloud / montecarlo_cloud), and
    \* bestSamplePoolSize
    verts, pool, bestSamplePoolSize,
    \* how many times montecarlo_sampling has produced the pool
    poolGen,
    \* PoissonDiskPruning: the diskRadius argument (numerator over RadDen)
    diskRadius,
    \* montecarloSHT: the pool indices still in the hash table, the number of
    \* times InitSpatialHashTable halved the cell size, and AllocatedCells
    inGrid, hLevel, AllocatedCells,
    \* the permutation std::shuffle applied in this run
    shufflePerm,
    \* possion_pointcloud, and for each of its entries how it got there:
    \* "vertex", "occupant" (a pool point that was in the grid when it was
    \* accepted) or "stale" (a pool point that was not)
    cloud, origin,
    \* sampleNum (PoissonDiskPruningByNumber's pp_sampleNum, by reference)
    sampleNum,
    \* locals of PoissonDiskPruning: removedCnt, the vertex loop's position,
    \* the for loop's i, the selected sp (a pool index, 0 before any selection)
    removedCnt, vi, i, sp,
    \* position inside PoissonDiskPruning
    ppc,
    \* position of the caller
    pc,
    \* PoissonDiskPruningByNumber: arguments, locals and the diskRadius result
    sampling_points_number, tolerance, maxIter,
    RangeMinRad, RangeMaxRad, RangeMinRadNum, RangeMaxRadNum,
    curRadius, iterCnt, outRadius,
    \* iterations each bracketing loop has made
    minIters, maxIters,
    \* two pruning runs on the same input: the two radii, and the first run's
    \* count and shuffle
    firstRadius, secondRadius, firstCount, firstShuffle

inputVars == <<verts, pool, bestSamplePoolSize, poolGen>>
gridVars == <<inGrid, hLevel, AllocatedCells>>
callerVars ==
    <<pc, sampling_points_number, tolerance, maxIter, RangeMinRad, RangeMaxRad,
      RangeMinRadNum, RangeMaxRadNum, curRadius, iterCnt, outRadius,
      minIters, maxIters, firstRadius, secondRadius, firstCount,
      firstShuffle>>
vars ==
    <<verts, pool, bestSamplePoolSize, poolGen, diskRadius, inGrid, hLevel,
      AllocatedCells, shufflePerm, cloud, origin, sampleNum, removedCnt, vi, i,
      sp, ppc, pc, sampling_points_number, tolerance, maxIter, RangeMinRad,
      RangeMaxRad, RangeMinRadNum, RangeMaxRadNum, curRadius, iterCnt,
      outRadius, minIters, maxIters, firstRadius, secondRadius, firstCount,
      firstShuffle>>

\* ------------------------------------------------------------------------
\* The mesh's bounding box (smesh->mesh_bbox) along x
\* ------------------------------------------------------------------------
BoxMin == SeqMin(verts)
BoxRange == SeqMax(verts) - SeqMin(verts)

\* ------------------------------------------------------------------------
\* SpatialHashTable
\* ------------------------------------------------------------------------
\* the cell size for radius n / RadDen after h halvings, as a reduced
\* fraction <<a, b>>: cellsize = 2 * radius / sqrt(3) / 2^h
CellSize(n, h) ==
    LET a == n * CellNum
        b == RadDen * CellDen * Pow2(h)
        g == GCD(a, b)
    IN  <<a \div g, b \div g>>

\* the grid resolution along x: the box grown by one cell size on each
\* side, "int sizeX = 1.0f > (x_range / cellsize) ? 1.0f : (x_range / cellsize)"
GridSize(n, h) ==
    LET cs == CellSize(n, h)
    IN  Max2(1, (BoxRange * cs[2] + 2 * cs[1]) \div cs[1])

\* Add: the cell of abscissa x in the grid InitEmpty(extend_box, gridsize)
\* laid out; the voxel is the grown box's range divided by the resolution
CellAt(x, n, h) ==
    LET cs == CellSize(n, h)
    IN  (((x - BoxMin) * cs[2] + cs[1]) * GridSize(n, h))
            \div (BoxRange * cs[2] + 2 * cs[1])

CellOf(j) == CellAt(pool[j], diskRadius, hLevel)

\* Grid(cell, first, last): the occupants of a cell, in the order Add put them
CellOccupants(c) ==
    Filter([j \in 1..Len(pool) |-> j], {j \in inGrid : CellOf(j) = c})

EmptyCell(c) == \A j \in inGrid : CellOf(j) # c

\* the occupants at distance < radius of centre p
InSphere(p) == {j \in inGrid : Abs(pool[j] - p) * RadDen < diskRadius}

CountInSphere(p) == Cardinality(InSphere(p))

\* UpdateAllocatedCells: the cells that hold an occupant; cells already
\* listed keep their place, emptied ones drop out, new ones follow in
\* ascending order
UpdateAllocatedCells(list, occupants, n, h) ==
    LET live == {CellAt(pool[j], n, h) : j \in occupants}
    IN  Filter(list, live) \o SortedSeq(live \ Range(list))

\* ------------------------------------------------------------------------
\* InitSpatialHashTable (lines 149-186)
\* ------------------------------------------------------------------------
\* the do-while: every pool point is added at the current cell size, and the
\* cell size is halved while more than MaxOccupancy points share a cell on
\* average
RECURSIVE OccupancyLevel(_, _)
OccupancyLevel(n, h) ==
    LET cells == {CellAt(pool[j], n, h) : j \in 1..Len(pool)}
    IN  IF Len(pool) > MaxOccupancy * Cardinality(cells)
        THEN OccupancyLevel(n, h + 1)
        ELSE h

InitSpatialHashTable ==
    /\ ppc = "start"
    /\ LET h == OccupancyLevel(diskRadius, 0)
       IN  /\ hLevel' = h
           /\ inGrid' = 1..Len(pool)
           /\ AllocatedCells' = UpdateAllocatedCells(<<>>, 1..Len(pool), diskRadius, h)
    /\ ppc' = "shuffle"
    /\ UNCHANGED <<inputVars, callerVars, diskRadius, shufflePerm, cloud, origin,
                   sampleNum, removedCnt, vi, i, sp>>

\* ------------------------------------------------------------------------
\* getBestPrecomputedMontecarloSample (lines 190-215)
\* ------------------------------------------------------------------------
\* the scan of the first occ[1..upto] occupants: bestSample after them
\* (0 while none was scanned), "if (curRemoveCnt < minRemoveCnt)" keeping the
\* first of the smallest counts
RECURSIVE ScanBest(_, _)
ScanBest(occ, upto) ==
    IF upto = 0 THEN 0
    ELSE LET before == ScanBest(occ, upto - 1)
             cur == occ[upto]
         IN  IF before = 0 \/ CountInSphere(pool[cur]) < CountInSphere(pool[before])
             THEN cur
             ELSE before

\* the loop "ci != cellEnd && i < bestSamplePoolSize" scans
\* min(bestSamplePoolSize, cell size) occupants, none when
\* bestSamplePoolSize <= 0; the result 0 stands for bestSample never assigned
getBestPrecomputedMontecarloSample(cell) ==
    LET occ == CellOccupants(cell)
    IN  ScanBest(occ, Max2(0, Min2(bestSamplePoolSize, Len(occ))))

\* ------------------------------------------------------------------------
\* PoissonDiskPruning (lines 218-270)
\* ------------------------------------------------------------------------
\* a variant of lines 238-243 without line 242's "sampleNum = 0": the count
\* goes on from the value the caller's int holds
ShuffleKeepingSampleNum ==
    /\ ppc = "shuffle"
    /\ \E f \in Perms(Len(AllocatedCells)) :
          /\ AllocatedCells' = [k \in 1..Len(AllocatedCells) |-> AllocatedCells[f[k]]]
          /\ shufflePerm' = f
    /\ removedCnt' = 0
    /\ vi' = 1
    /\ ppc' = "seed"
    /\ UNCHANGED <<inputVars, callerVars, diskRadius, inGrid, hLevel, cloud,
                   origin, sampleNum, i, sp>>

\* lines 238-243: std::shuffle of AllocatedCells, sampleNum = 0, removedCnt = 0
ShuffleAllocatedCells ==
    /\ ppc = "shuffle"
    /\ \E f \in Perms(Len(AllocatedCells)) :
          /\ AllocatedCells' = [k \in 1..Len(AllocatedCells) |-> AllocatedCells[f[k]]]
          /\ shufflePerm' = f
    /\ sampleNum' = 0
    /\ removedCnt' = 0
    /\ vi' = 1
    /\ ppc' = "seed"
    /\ UNCHANGED <<inputVars, callerVars, diskRadius, inGrid, hLevel, cloud,
                   origin, i, sp>>

\* a variant of the vertex loop without line 250's RemoveInSphere: the pool
\* points around a vertex stay in the grid
SeedVertexKeepingSphere ==
    /\ ppc = "seed"
    /\ vi <= Len(verts)
    /\ cloud' = Append(cloud, verts[vi])
    /\ origin' = Append(origin, "vertex")
    /\ sampleNum' = sampleNum + 1
    /\ vi' = vi + 1
    /\ UNCHANGED <<inputVars, callerVars, diskRadius, gridVars, shufflePerm,
                   removedCnt, i, sp, ppc>>

\* a variant of the vertex loop that applies the exclusion test to the
\* vertices too: a vertex within diskRadius of a point already in the cloud
\* is left out
SeedVertexIfApart ==
    /\ ppc = "seed"
    /\ vi <= Len(verts)
    /\ IF \A a \in 1..Len(cloud) : Abs(cloud[a] - verts[vi]) * RadDen >= diskRadius
       THEN /\ cloud' = Append(cloud, verts[vi])
            /\ origin' = Append(origin, "vertex")
            /\ sampleNum' = sampleNum + 1
       ELSE UNCHANGED <<cloud, origin, sampleNum>>
    /\ removedCnt' = removedCnt + CountInSphere(verts[vi])
    /\ inGrid' = inGrid \ InSphere(verts[vi])
    /\ vi' = vi + 1
    /\ UNCHANGED <<inputVars, callerVars, diskRadius, hLevel, AllocatedCells,
                   shufflePerm, i, sp, ppc>>

\* lines 246-251: one mesh vertex is added to the cloud and the pool points
\* in its sphere leave the grid
SeedVertex ==
    /\ ppc = "seed"
    /\ vi <= Len(verts)
    /\ cloud' = Append(cloud, verts[vi])
    /\ origin' = Append(origin, "vertex")
    /\ sampleNum' = sampleNum + 1
    /\ removedCnt' = removedCnt + CountInSphere(verts[vi])
    /\ inGrid' = inGrid \ InSphere(verts[vi])
    /\ vi' = vi + 1
    /\ UNCHANGED <<inputVars, callerVars, diskRadius, hLevel, AllocatedCells,
                   shufflePerm, i, sp, ppc>>

\* line 252: UpdateAllocatedCells after the last vertex
SeedEnd ==
    /\ ppc = "seed"
    /\ vi > Len(verts)
    /\ AllocatedCells' = UpdateAllocatedCells(AllocatedCells, inGrid, diskRadius, hLevel)
    /\ ppc' = "while"
    /\ UNCHANGED <<inputVars, callerVars, diskRadius, inGrid, hLevel, shufflePerm,
                   cloud, origin, sampleNum, removedCnt, vi, i, sp>>

\* lines 254-257: "while (!AllocatedCells.empty())", removedCnt = 0, i = 0
WhileTest ==
    /\ ppc = "while"
    /\ IF AllocatedCells = <<>>
       THEN /\ ppc' = "return"
            /\ UNCHANGED <<removedCnt, i>>
       ELSE /\ ppc' = "for"
            /\ removedCnt' = 0
            /\ i' = 0
    /\ UNCHANGED <<inputVars, callerVars, diskRadius, gridVars, shufflePerm, cloud,
                   origin, sampleNum, vi, sp>>

\* lines 259-260: a cell emptied earlier in the pass is skipped
SkipEmptyCell ==
    /\ ppc = "for"
    /\ i < Len(AllocatedCells)
    /\ EmptyCell(AllocatedCells[i + 1])
    /\ i' = i + 1
    /\ UNCHANGED <<inputVars, callerVars, diskRadius, gridVars, shufflePerm, cloud,
                   origin, sampleNum, removedCnt, vi, sp, ppc>>

\* line 262: sp = getBestPrecomputedMontecarloSample(...).  When the scan
\* examined no occupant the function returns its uninitialized bestSample:
\* the pointer may address any point of the pool, in the grid or not, or
\* nothing at all, in which case line 264 faults
SelectSample ==
    /\ ppc = "for"
    /\ i < Len(AllocatedCells)
    /\ ~EmptyCell(AllocatedCells[i + 1])
    /\ LET best == getBestPrecomputedMontecarloSample(AllocatedCells[i + 1])
       IN  IF best # 0
           THEN sp' = best /\ ppc' = "accept"
           ELSE \/ \E j \in 1..Len(pool) : sp' = j /\ ppc' = "accept"
                \/ sp' = 0 /\ ppc' = "crashed"
    /\ UNCHANGED <<inputVars, callerVars, diskRadius, gridVars, shufflePerm, cloud,
                   origin, sampleNum, removedCnt, vi, i>>

\* lines 264-266: *sp joins the cloud and RemoveInSphere clears its sphere
AcceptSample ==
    /\ ppc = "accept"
    /\ Len(cloud) < MaxCloud
    /\ cloud' = Append(cloud, pool[sp])
    /\ origin' = Append(origin, IF sp \in inGrid THEN "occupant" ELSE "stale")
    /\ sampleNum' = sampleNum + 1
    /\ removedCnt' = removedCnt + CountInSphere(pool[sp])
    /\ inGrid' = inGrid \ InSphere(pool[sp])
    /\ i' = i + 1
    /\ ppc' = "for"
    /\ UNCHANGED <<inputVars, callerVars, diskRadius, hLevel, AllocatedCells,
                   shufflePerm, vi, sp>>

\* line 268: UpdateAllocatedCells at the end of a pass over the cells
PassEnd ==
    /\ ppc = "for"
    /\ i >= Len(AllocatedCells)
    /\ AllocatedCells' = UpdateAllocatedCells(AllocatedCells, inGrid, diskRadius, hLevel)
    /\ ppc' = "while"
    /\ UNCHANGED <<inputVars, callerVars, diskRadius, inGrid, hLevel, shufflePerm,
                   cloud, origin, sampleNum, removedCnt, vi, i, sp>>

PoissonDiskPruning ==
    \/ InitSpatialHashTable
    \/ ShuffleAllocatedCells
    \/ SeedVertex
    \/ SeedEnd
    \/ WhileTest
    \/ SkipEmptyCell
    \/ SelectSample
    \/ AcceptSample
    \/ PassEnd

\* ------------------------------------------------------------------------
\* One pruning run: PoissonDiskPruning called on an empty cloud
\* ------------------------------------------------------------------------
NoCaller ==
    /\ sampling_points_number = 0
    /\ tolerance = 0
    /\ maxIter = 0
    /\ RangeMinRad = 0
    /\ RangeMaxRad = 0
    /\ RangeMinRadNum = 0
    /\ RangeMaxRadNum = 0
    /\ curRadius = 0
    /\ iterCnt = 0
    /\ outRadius = 0
    /\ minIters = 0
    /\ maxIters = 0

NoSecondRun ==
    /\ firstRadius = 0
    /\ secondRadius = 0
    /\ firstCount = 0
    /\ firstShuffle = <<>>

FreshRun ==
    /\ inGrid = {}
    /\ hLevel = 0
    /\ AllocatedCells = <<>>
    /\ shufflePerm = <<>>
    /\ cloud = <<>>
    /\ origin = <<>>
    /\ sampleNum = 0
    /\ removedCnt = 0
    /\ vi = 1
    /\ i = 0
    /\ sp = 0

Init ==
    /\ verts \in Meshes
    /\ pool \in Pools
    /\ bestSamplePoolSize \in BestPoolSizes
    /\ poolGen = 1
    /\ diskRadius \in PruneRadii
    /\ FreshRun
    /\ ppc = "start"
    /\ pc = "prune"
    /\ NoCaller
    /\ NoSecondRun

Next == PoissonDiskPruning

Spec == Init /\ [][Next]_vars

\* ------------------------------------------------------------------------
\* Two pruning runs on the same mesh, pool and bestSamplePoolSize, the second
\* with the larger radius (SpecTwoRuns)
\* ------------------------------------------------------------------------
InitTwoRuns ==
    /\ verts \in Meshes
    /\ pool \in Pools
    /\ bestSamplePoolSize \in BestPoolSizes
    /\ poolGen = 1
    /\ diskRadius \in PruneRadii
    /\ firstRadius = diskRadius
    /\ secondRadius \in {r \in PruneRadii : r > diskRadius}
    /\ firstCount = 0
    /\ firstShuffle = <<>>
    /\ FreshRun
    /\ ppc = "start"
    /\ pc = "first"
    /\ NoCaller

\* the caller keeps the first run's count and calls PoissonDiskPruning again
\* with an empty cloud, the same int for sampleNum and the second radius
SecondRun ==
    /\ pc = "first"
    /\ ppc = "return"
    /\ firstCount' = sampleNum
    /\ firstShuffle' = shufflePerm
    /\ diskRadius' = secondRadius
    /\ cloud' = <<>>
    /\ origin' = <<>>
    /\ ppc' = "start"
    /\ pc' = "second"
    /\ UNCHANGED <<inputVars, gridVars, shufflePerm, sampleNum, removedCnt, vi, i,
                   sp, sampling_points_number, tolerance, maxIter, RangeMinRad,
                   RangeMaxRad, RangeMinRadNum, RangeMaxRadNum, curRadius, iterCnt,
                   outRadius, minIters, maxIters, firstRadius, secondRadius>>

NextTwoRuns == PoissonDiskPruning \/ SecondRun

SpecTwoRuns == InitTwoRuns /\ [][NextTwoRuns]_vars

\* ------------------------------------------------------------------------
\* montecarlo_sampling (lines 334-382)
\* ------------------------------------------------------------------------
\* the caller fills the dense pool with used_sampling_points_number = MaxPool
\* points drawn on the mesh, in the order the generator draws them
montecarlo_sampling ==
    /\ pc = "sample"
    /\ pool' \in {p \in Pools : Len(p) = MaxPool}
    /\ poolGen' = poolGen + 1
    /\ pc' = "entry"
    /\ UNCHANGED <<verts, bestSamplePoolSize, diskRadius, gridVars, shufflePerm,
                   cloud, origin, sampleNum, removedCnt, vi, i, sp, ppc,
                   sampling_points_number, tolerance, maxIter, RangeMinRad,
                   RangeMaxRad, RangeMinRadNum, RangeMaxRadNum, curRadius, iterCnt,
                   outRadius, minIters, maxIters, firstRadius, secondRadius,
                   firstCount, firstShuffle>>

\* ------------------------------------------------------------------------
\* PoissonDiskPruningByNumber (lines 273-331)
\* ------------------------------------------------------------------------
\* tolerance is kept in thousandths; "int(float(n) * (1.0f - tolerance))"
\* truncates
sampleNumMin == (sampling_points_number * (1000 - tolerance)) \div 1000
sampleNumMax == (sampling_points_number * (1000 + tolerance)) \div 1000

\* mesh_bbox.diagonal() / 50.0 as a numerator over RadDen
InitialRadius == BoxRange * Pow2(FracBits)

\* a call of PoissonDiskPruning(possion_cloud, montecarlo_cloud, smesh,
\* pp_sampleNum, radius, bestSamplePoolSize): its locals are fresh
CallPruning(radius) ==
    /\ diskRadius' = radius
    /\ inGrid' = {}
    /\ hLevel' = 0
    /\ AllocatedCells' = <<>>
    /\ shufflePerm' = <<>>
    /\ removedCnt' = 0
    /\ vi' = 1
    /\ i' = 0
    /\ sp' = 0
    /\ ppc' = "start"

\* PoissonDiskPruning has returned: its grid and its locals are gone
ReturnFromPruning ==
    /\ ppc' = "idle"
    /\ inGrid' = {}
    /\ hLevel' = 0
    /\ AllocatedCells' = <<>>
    /\ shufflePerm' = <<>>
    /\ removedCnt' = 0
    /\ vi' = 1
    /\ i' = 0
    /\ sp' = 0

\* lines 285-291
ByNumberEntry ==
    /\ pc = "entry"
    /\ RangeMinRad' = InitialRadius
    /\ RangeMaxRad' = InitialRadius
    /\ sampleNum' = 0
    /\ pc' = "min_do"
    /\ UNCHANGED <<inputVars, diskRadius, gridVars, shufflePerm, cloud, origin,
                   removedCnt, vi, i, sp, ppc, sampling_points_number, tolerance,
                   maxIter, RangeMinRadNum, RangeMaxRadNum, curRadius, iterCnt,
                   outRadius, minIters, maxIters, firstRadius, secondRadius,
                   firstCount, firstShuffle>>

\* a variant of lines 295-297 that draws a new pool before it prunes
MinLoopBodyResampling ==
    /\ pc = "min_do"
    /\ minIters < MaxBracket
    /\ pool' \in {p \in Pools : Len(p) = MaxPool}
    /\ poolGen' = poolGen + 1
    /\ cloud' = <<>>
    /\ origin' = <<>>
    /\ RangeMinRad' = RangeMinRad \div 2
    /\ CallPruning(RangeMinRad \div 2)
    /\ minIters' = minIters + 1
    /\ pc' = "min_call"
    /\ UNCHANGED <<verts, bestSamplePoolSize, sampleNum, sampling_points_number,
                   tolerance, maxIter, RangeMaxRad, RangeMinRadNum, RangeMaxRadNum,
                   curRadius, iterCnt, outRadius, maxIters, firstRadius,
                   secondRadius, firstCount, firstShuffle>>

\* lines 295-297: the cloud is cleared, RangeMinRad halved, the pool pruned
MinLoopBody ==
    /\ pc = "min_do"
    /\ minIters < MaxBracket
    /\ cloud' = <<>>
    /\ origin' = <<>>
    /\ RangeMinRad' = RangeMinRad \div 2
    /\ CallPruning(RangeMinRad \div 2)
    /\ minIters' = minIters + 1
    /\ pc' = "min_call"
    /\ UNCHANGED <<inputVars, sampleNum, sampling_points_number, tolerance, maxIter,
                   RangeMaxRad, RangeMinRadNum, RangeMaxRadNum, curRadius, iterCnt,
                   outRadius, maxIters, firstRadius, secondRadius, firstCount,
                   firstShuffle>>

\* lines 298-299: "while (RangeMinRadNum < sampling_points_number)"
MinLoopTest ==
    /\ pc = "min_call"
    /\ ppc = "return"
    /\ RangeMinRadNum' = sampleNum
    /\ pc' = IF sampleNum < sampling_points_number THEN "min_do" ELSE "max_do"
    /\ ReturnFromPruning
    /\ UNCHANGED <<inputVars, diskRadius, cloud, origin, sampleNum,
                   sampling_points_number,
                   tolerance, maxIter, RangeMinRad, RangeMaxRad, RangeMaxRadNum,
                   curRadius, iterCnt, outRadius, minIters, maxIters, firstRadius,
                   secondRadius, firstCount, firstShuffle>>

\* lines 302-304: the cloud is cleared, RangeMaxRad doubled, the pool pruned
MaxLoopBody ==
    /\ pc = "max_do"
    /\ maxIters < MaxBracket
    /\ cloud' = <<>>
    /\ origin' = <<>>
    /\ RangeMaxRad' = RangeMaxRad * 2
    /\ CallPruning(RangeMaxRad * 2)
    /\ maxIters' = maxIters + 1
    /\ pc' = "max_call"
    /\ UNCHANGED <<inputVars, sampleNum, sampling_points_number, tolerance, maxIter,
                   RangeMinRad, RangeMinRadNum, RangeMaxRadNum, curRadius, iterCnt,
                   outRadius, minIters, firstRadius, secondRadius, firstCount,
                   firstShuffle>>

\* lines 305-310: "while (RangeMaxRadNum > sampling_points_number)", then
\* curRadius = RangeMaxRad and iterCnt = 0
MaxLoopTest ==
    /\ pc = "max_call"
    /\ ppc = "return"
    /\ RangeMaxRadNum' = sampleNum
    /\ IF sampleNum > sampling_points_number
       THEN /\ pc' = "max_do"
            /\ UNCHANGED <<curRadius, iterCnt>>
       ELSE /\ pc' = "bisect"
            /\ curRadius' = RangeMaxRad
            /\ iterCnt' = 0
    /\ ReturnFromPruning
    /\ UNCHANGED <<inputVars, diskRadius, cloud, origin, sampleNum,
                   sampling_points_number,
                   tolerance, maxIter, RangeMinRad, RangeMaxRad, RangeMinRadNum,
                   outRadius, minIters, maxIters, firstRadius, secondRadius,
                   firstCount, firstShuffle>>

\* a variant of the bisection's loop whose test reads "iterCnt <= maxIter"
BisectStepOneMore ==
    /\ pc = "bisect"
    /\ iterCnt <= maxIter
    /\ sampleNum < sampleNumMin \/ sampleNum > sampleNumMax
    /\ iterCnt' = iterCnt + 1
    /\ cloud' = <<>>
    /\ origin' = <<>>
    /\ curRadius' = (RangeMaxRad + RangeMinRad) \div 2
    /\ CallPruning((RangeMaxRad + RangeMinRad) \div 2)
    /\ pc' = "bisect_call"
    /\ UNCHANGED <<inputVars, sampleNum, sampling_points_number, tolerance, maxIter,
                   RangeMinRad, RangeMaxRad, RangeMinRadNum, RangeMaxRadNum,
                   outRadius, minIters, maxIters, firstRadius, secondRadius,
                   firstCount, firstShuffle>>

\* lines 311-317: the bisection's loop test, "iterCnt < maxIter &&
\* (pp_sampleNum < sampleNumMin || pp_sampleNum > sampleNumMax)", and the
\* body up to the call at the midpoint radius
BisectStep ==
    /\ pc = "bisect"
    /\ iterCnt < maxIter
    /\ sampleNum < sampleNumMin \/ sampleNum > sampleNumMax
    /\ iterCnt' = iterCnt + 1
    /\ cloud' = <<>>
    /\ origin' = <<>>
    /\ curRadius' = (RangeMaxRad + RangeMinRad) \div 2
    /\ CallPruning((RangeMaxRad + RangeMinRad) \div 2)
    /\ pc' = "bisect_call"
    /\ UNCHANGED <<inputVars, sampleNum, sampling_points_number, tolerance, maxIter,
                   RangeMinRad, RangeMaxRad, RangeMinRadNum, RangeMaxRadNum,
                   outRadius, minIters, maxIters, firstRadius, secondRadius,
                   firstCount, firstShuffle>>

\* lines 319-328: the bound on the side of the count moves to curRadius
BisectUpdate ==
    /\ pc = "bisect_call"
    /\ ppc = "return"
    /\ IF sampleNum > sampling_points_number
       THEN RangeMinRad' = curRadius /\ RangeMinRadNum' = sampleNum
       ELSE UNCHANGED <<RangeMinRad, RangeMinRadNum>>
    /\ IF sampleNum < sampling_points_number
       THEN RangeMaxRad' = curRadius /\ RangeMaxRadNum' = sampleNum
       ELSE UNCHANGED <<RangeMaxRad, RangeMaxRadNum>>
    /\ pc' = "bisect"
    /\ ReturnFromPruning
    /\ UNCHANGED <<inputVars, diskRadius, cloud, origin, sampleNum,
                   sampling_points_number,
                   tolerance, maxIter, curRadius, iterCnt, outRadius, minIters,
                   maxIters, firstRadius, secondRadius, firstCount, firstShuffle>>

\* a variant of line 330 that returns the bracket's upper radius
ByNumberReturnUpperBound ==
    /\ pc = "bisect"
    /\ ~(/\ iterCnt < maxIter
         /\ sampleNum < sampleNumMin \/ sampleNum > sampleNumMax)
    /\ outRadius' = RangeMaxRad
    /\ pc' = "done"
    /\ UNCHANGED <<inputVars, diskRadius, gridVars, shufflePerm, cloud, origin,
                   sampleNum, removedCnt, vi, i, sp, ppc, sampling_points_number,
                   tolerance, maxIter, RangeMinRad, RangeMaxRad, RangeMinRadNum,
                   RangeMaxRadNum, curRadius, iterCnt, minIters, maxIters,
                   firstRadius, secondRadius, firstCount, firstShuffle>>

\* lines 311-312 and 330: the loop test fails, diskRadius = curRadius, return
ByNumberReturn ==
    /\ pc = "bisect"
    /\ ~(/\ iterCnt < maxIter
         /\ sampleNum < sampleNumMin \/ sampleNum > sampleNumMax)
    /\ outRadius' = curRadius
    /\ pc' = "done"
    /\ UNCHANGED <<inputVars, diskRadius, gridVars, shufflePerm, cloud, origin,
                   sampleNum, removedCnt, vi, i, sp, ppc, sampling_points_number,
                   tolerance, maxIter, RangeMinRad, RangeMaxRad, RangeMinRadNum,
                   RangeMaxRadNum, curRadius, iterCnt, minIters, maxIters,
                   firstRadius, secondRadius, firstCount, firstShuffle>>

PoissonDiskPruningByNumber ==
    \/ ByNumberEntry
    \/ MinLoopBody
    \/ MinLoopTest
    \/ MaxLoopBody
    \/ MaxLoopTest
    \/ BisectStep
    \/ BisectUpdate
    \/ ByNumberReturn

\* ------------------------------------------------------------------------
\* A calibration: montecarlo_sampling, then PoissonDiskPruningByNumber
\* (SpecByNumber)
\* ------------------------------------------------------------------------
\* sampling_points_number: 0, values the pruning can reach, and one above
\* the pool and the vertices together
Targets == {0, 4, 5, 7}
\* tolerance, in thousandths (0.005 is the header's default)
Tolerances == {0, 5}
\* bestSamplePoolSize values with which every selection scans an occupant
\* (Spec and SpecTwoRuns explore the selection that scans none)
ScanningPoolSizes == {k \in BestPoolSizes : k >= 1}

InitByNumber ==
    /\ verts \in Meshes
    /\ pool = <<>>
    /\ poolGen = 0
    /\ bestSamplePoolSize \in ScanningPoolSizes
    /\ sampling_points_number \in Targets
    /\ tolerance \in Tolerances
    /\ maxIter \in 0..MaxIterCap
    /\ diskRadius = 0
    /\ FreshRun
    /\ ppc = "idle"
    /\ pc = "sample"
    /\ RangeMinRad = 0
    /\ RangeMaxRad = 0
    /\ RangeMinRadNum = 0
    /\ RangeMaxRadNum = 0
    /\ curRadius = 0
    /\ iterCnt = 0
    /\ outRadius = 0
    /\ minIters = 0
    /\ maxIters = 0
    /\ NoSecondRun

NextByNumber ==
    \/ montecarlo_sampling
    \/ PoissonDiskPruningByNumber
    \/ PoissonDiskPruning

SpecByNumber == InitByNumber /\ [][NextByNumber]_vars

\* ------------------------------------------------------------------------
\* Claims about one pruning run (Spec)
\* ------------------------------------------------------------------------
Dist(a, b) == Abs(cloud[a] - cloud[b])
Apart(a, b) == Dist(a, b) * RadDen >= diskRadius

\* C1 as stated: when PoissonDiskPruning returns, every two points of the
\* output cloud at different positions, seeded vertices and accepted pool
\* points alike, are at distance >= diskRadius.
C1_ExclusionAllPairs ==
    ppc = "return" =>
        \A a, b \in 1..Len(cloud) : cloud[a] # cloud[b] => Apart(a, b)

\* C1 amended: every output point that was accepted from the pool while it
\* was an occupant of the grid is at distance >= diskRadius from every point
\* that entered the output before it, vertices included.
C1_ExclusionOfOccupants ==
    \A b \in 1..Len(cloud) :
        origin[b] = "occupant" => \A a \in 1..(b - 1) : Apart(a, b)

\* a finished run with three vertices that accepted two pool points as
\* occupants and pruned a third
C1_Witness ==
    /\ ppc = "return"
    /\ Len(verts) = 3
    /\ Len(pool) = 3
    /\ Cardinality({b \in 1..Len(cloud) : origin[b] = "occupant"}) = 2
    /\ \A b \in 1..Len(cloud) : origin[b] # "stale"

\* C2: the mesh vertices are the first entries of the output, in their
\* enumeration order, whatever the radius and the pool, and sampleNum is at
\* least their number once the vertex loop is over.
C2_VerticesFirst ==
    ppc \in {"while", "for", "accept", "return", "crashed"} =>
        /\ Len(cloud) >= Len(verts)
        /\ SubSeq(cloud, 1, Len(verts)) = verts
        /\ sampleNum >= Len(verts)

\* a finished run whose output holds the three vertices and pool points
\* after them, one vertex lying within the radius of another
C2_Witness ==
    /\ ppc = "return"
    /\ Len(verts) = 3
    /\ Abs(verts[3] - verts[1]) * RadDen < diskRadius
    /\ Len(cloud) > Len(verts)

\* C3 as stated: every pass over a non-empty AllocatedCells removes at least
\* one occupant from the grid, and the grid is empty when the function
\* returns.
C3_EveryPassRemoves ==
    /\ (ppc = "for" /\ i >= Len(AllocatedCells)) => removedCnt > 0
    /\ ppc = "return" => inGrid = {}

\* C9 as stated: the point selected for a non-empty cell is an occupant of
\* that cell among its first min(bestSamplePoolSize, size) occupants, with
\* the smallest CountInSphere among them and the first such, for every
\* bestSamplePoolSize.
C9_BestOfScanned ==
    ppc = "accept" =>
        LET occ == CellOccupants(AllocatedCells[i + 1])
            n == Min2(bestSamplePoolSize, Len(occ))
        IN  /\ sp \in inGrid
            /\ \E m \in 1..n :
                  /\ occ[m] = sp
                  /\ \A q \in 1..n :
                        /\ CountInSphere(pool[sp]) <= CountInSphere(pool[occ[q]])
                        /\ q < m => CountInSphere(pool[occ[q]]) > CountInSphere(pool[sp])

\* ------------------------------------------------------------------------
\* Claims about two pruning runs (SpecTwoRuns)
\* ------------------------------------------------------------------------
BothReturned == pc = "second" /\ ppc = "return"
OccupantsAccepted == Cardinality({b \in 1..Len(origin) : origin[b] = "occupant"})

\* C7 as stated, on runs that select only occupants (bestSamplePoolSize >= 1):
\* for the same mesh, pool, bestSamplePoolSize and shuffle permutation, the
\* count returned with the larger radius is at most the count returned with
\* the smaller one.
C7_MonotoneInRadius ==
    (BothReturned /\ bestSamplePoolSize >= 1 /\ shufflePerm = firstShuffle) =>
        sampleNum <= firstCount

\* C7 amended: when the second radius is at least twice the first, the number
\* of mesh vertices plus the number of points the second run accepted while
\* they were grid occupants is at most the count the first run returned; for
\* bestSamplePoolSize >= 1 that number is the count the second run returns.
C7_MonotoneWhenDoubled ==
    (BothReturned /\ secondRadius >= 2 * firstRadius) =>
        /\ Len(verts) + OccupantsAccepted <= firstCount
        /\ bestSamplePoolSize >= 1 => sampleNum <= firstCount

\* two finished runs, the second at twice the first radius or more, where the
\* first kept two pool points and the second only one
C7_Witness ==
    /\ BothReturned
    /\ secondRadius >= 2 * firstRadius
    /\ bestSamplePoolSize >= 1
    /\ firstCount >= Len(verts) + 2
    /\ sampleNum = Len(verts) + 1

\* ------------------------------------------------------------------------
\* Claims about the calibration (SpecByNumber)
\* ------------------------------------------------------------------------
\* the count of a pruning run lies between the number of mesh vertices and
\* that number plus the pool's size, whatever the radius
PrunedCountRange ==
    ppc = "return" =>
        /\ sampleNum >= Len(verts)
        /\ sampleNum <= Len(verts) + Len(pool)

\* C4 as stated, with the cap at MaxBracket iterations: neither bracketing
\* loop asks for an iteration beyond the cap, for every target (0, below the
\* number of vertices, above the pool and the vertices together); the call
\* would end in a CalibrationFailure instead, an outcome the code does not have.
C4_BracketingCapped ==
    /\ ~(pc = "min_do" /\ minIters >= MaxBracket)
    /\ ~(pc = "max_do" /\ maxIters >= MaxBracket)

\* C5 as stated: on return the number of points in the output cloud lies in
\* [target * (1 - tolerance), target * (1 + tolerance)] and at most maxIter
\* bisection runs were made; the only other outcome would be a
\* CalibrationFailure, which the code cannot report.
C5_InToleranceOnReturn ==
    pc = "done" =>
        /\ Len(cloud) * 1000 >= sampling_points_number * (1000 - tolerance)
        /\ Len(cloud) * 1000 <= sampling_points_number * (1000 + tolerance)
        /\ iterCnt <= maxIter

\* C5 amended: on return at most maxIter bisection runs were made, and either
\* the number of points in the output cloud lies in [sampleNumMin,
\* sampleNumMax], the bounds truncated to integers, or all maxIter bisection
\* runs were used up and the out-of-tolerance cloud is returned as the result.
C5_InToleranceOrExhausted ==
    pc = "done" =>
        /\ iterCnt <= maxIter
        /\ \/ sampleNumMin <= Len(cloud) /\ Len(cloud) <= sampleNumMax
           \/ iterCnt = maxIter

\* a return after a bisection that used up maxIter >= 1 runs and left the
\* count below sampleNumMin
C5_Witness ==
    /\ pc = "done"
    /\ maxIter >= 1
    /\ iterCnt = maxIter
    /\ Len(cloud) < sampleNumMin

\* C6: on every return the output cloud is the output of the last
\* PoissonDiskPruning run alone (pp_sampleNum, which that run counted from 0,
\* is the cloud's size, and the cloud starts with the mesh vertices), and the
\* radius written to diskRadius is the radius that run was called with.
C6_ResultOfLastRun ==
    pc = "done" =>
        /\ sampleNum = Len(cloud)
        /\ SubSeq(cloud, 1, Len(verts)) = verts
        /\ outRadius = diskRadius

\* a return after two bisection runs that moved a different bound each, with
\* pool points in the output
C6_Witness ==
    /\ pc = "done"
    /\ iterCnt = 2
    /\ outRadius # RangeMaxRad
    /\ RangeMinRad * 2 # InitialRadius
    /\ Len(cloud) > Len(verts)

C10_StrictBracket ==
    pc \in {"bisect", "done"} =>
        /\ RangeMinRad < RangeMaxRad
        /\ RangeMinRadNum > sampling_points_number
        /\ sampling_points_number > RangeMaxRadNum
        /\ iterCnt >= 1 => (RangeMinRad = curRadius) # (RangeMaxRad = curRadius)

====
